---- MODULE Spec2Model ----
(***************************************************************************)
(* Model of src/speedtest.js: the fetch primitive makeRequest (one HTTP    *)
(* request per call, redirects followed by a nested call), the latency     *)
(* probe pingTest, testServer, the sequential loop of SpeedTest.run / main *)
(* and the statistics computed from the results.                           *)
(*                                                                         *)
(* Time is the value of performance.now() in milliseconds; it advances in  *)
(* steps of 5 s or 30 s.  Speeds are JavaScript doubles in the source and exact *)
(* rationals [n, d] (lowest terms) here.  Each action is one event-loop    *)
(* task: an I/O or timer callback, or the continuation of an await, which  *)
(* runs before any further I/O or timer callback.                          *)
(***************************************************************************)
EXTENDS Integers, Sequences, FiniteSets, TLC

\* ------------------------------------------------------------------ bounds
MaxServers == 2       \* longest requested provider list
MaxTests == 2         \* most targets a modelled run selects
MaxTicks == 2         \* the clock advances at most MaxTicks times
MaxChunks == 2        \* most data chunks a response body delivers
MaxRedirects == 1     \* most redirect hops the network answers per fetch
ChunkBytes == 625000  \* length of every data chunk, in bytes

\* ------------------------------------------------- constants of the source
TransferTimeoutMs == 30000
PingTimeoutMs == 5000
Steps == {PingTimeoutMs, TransferTimeoutMs}

TEST_SERVERS_KEYS ==
  << "cloudflare", "cachefly", "linode", "vultr", "bunny", "scaleway", "ovh" >>

TEST_SERVERS(key) ==
  CASE key = "cloudflare" ->
         << [name |-> "Cloudflare 10MB", url |-> "https://speed.cloudflare.com/__down?bytes=10485760", size |-> 10],
            [name |-> "Cloudflare 100MB", url |-> "https://speed.cloudflare.com/__down?bytes=104857600", size |-> 100] >>
    [] key = "cachefly" ->
         << [name |-> "CacheFly 10MB", url |-> "http://cachefly.cachefly.net/10mb.test", size |-> 10],
            [name |-> "CacheFly 100MB", url |-> "http://cachefly.cachefly.net/100mb.test", size |-> 100] >>
    [] key = "linode" ->
         << [name |-> "Linode London", url |-> "http://speedtest.london.linode.com/100MB-london.bin", size |-> 100],
            [name |-> "Linode Newark", url |-> "http://speedtest.newark.linode.com/100MB-newark.bin", size |-> 100],
            [name |-> "Linode Frankfurt", url |-> "http://speedtest.frankfurt.linode.com/100MB-frankfurt.bin", size |-> 100],
            [name |-> "Linode Singapore", url |-> "http://speedtest.singapore.linode.com/100MB-singapore.bin", size |-> 100] >>
    [] key = "vultr" ->
         << [name |-> "Vultr Amsterdam", url |-> "https://ams-nl-ping.vultr.com/vultr.com.100MB.bin", size |-> 100],
            [name |-> "Vultr Frankfurt", url |-> "https://fra-de-ping.vultr.com/vultr.com.100MB.bin", size |-> 100],
            [name |-> "Vultr London", url |-> "https://lon-gb-ping.vultr.com/vultr.com.100MB.bin", size |-> 100],
            [name |-> "Vultr Tokyo", url |-> "https://hnd-jp-ping.vultr.com/vultr.com.100MB.bin", size |-> 100] >>
    [] key = "bunny" ->
         << [name |-> "Bunny CDN 10MB", url |-> "https://test.b-cdn.net/10mb.bin", size |-> 10],
            [name |-> "Bunny CDN 100MB", url |-> "https://test.b-cdn.net/100mb.bin", size |-> 100] >>
    [] key = "scaleway" ->
         << [name |-> "Scaleway Paris 10MB", url |-> "https://scaleway.testdebit.info/10M/10M.iso", size |-> 100],
            [name |-> "Scaleway Paris 100MB", url |-> "https://scaleway.testdebit.info/100M/100M.iso", size |-> 10] >>
    [] key = "ovh" ->
         << [name |-> "OVH 10MB", url |-> "https://proof.ovh.net/files/10Mb.dat", size |-> 10],
            [name |-> "OVH 100MB", url |-> "https://proof.ovh.net/files/100Mb.dat", size |-> 100] >>
    [] OTHER -> << >>

\* TEST_SERVERS[serverKey] is truthy exactly for the keys of the catalog.
HasServers(key) == \E i \in 1..Len(TEST_SERVERS_KEYS) : TEST_SERVERS_KEYS[i] = key

\* --------------------------------------------------------------- rationals
RECURSIVE Gcd(_, _)
Gcd(a, b) == IF b = 0 THEN a ELSE Gcd(b, a % b)

Rat(n, d) == IF n = 0 THEN [n |-> 0, d |-> 1]
             ELSE [n |-> n \div Gcd(n, d), d |-> d \div Gcd(n, d)]

RatAdd(p, q) ==
  LET g == Gcd(p.d, q.d)
  IN  Rat(p.n * (q.d \div g) + q.n * (p.d \div g), (p.d \div g) * q.d)

RatLess(p, q) ==
  LET g == Gcd(p.d, q.d)
  IN  p.n * (q.d \div g) < q.n * (p.d \div g)

RatDivInt(p, k) ==
  LET g == Gcd(p.n, k)
  IN  IF p.n = 0 THEN Rat(0, 1) ELSE [n |-> p.n \div g, d |-> p.d * (k \div g)]

Zero == Rat(0, 1)

\* speedMbps: totalBytes * 8 / duration / 1000000, duration in seconds.
SpeedMbps(bytes, durationMs) == Rat(bytes * 8, durationMs * 1000)

\* speedMBps: totalBytes / duration / 1048576, duration in seconds.
SpeedMBps(bytes, durationMs) ==
  LET g == Gcd(bytes, 1048576)
      h == Gcd(1000, durationMs)
  IN  Rat((bytes \div g) * (1000 \div h), (durationMs \div h) * (1048576 \div g))

\* JavaScript null is None; a present value v is Some(v).
None == << >>
Some(v) == << v >>

\* ------------------------------------------------------------------- state
VARIABLES
  options,        \* the parsed options: entry point, servers, sizes, json, ping
  pc,             \* where the runner is: start, loop, ping, transfer, done, exit
  tests,          \* the selected targets, in the order they are run
  idx,            \* 1-based position in tests of the target being processed
  testResult,     \* testServer's record for the target being processed
  results,        \* the results pushed so far
  statistics,     \* the stats object, once computed
  calls,          \* every makeRequest call so far, with its request and promise
  awaiting,       \* the call whose promise the runner awaits (0: none)
  pingStart,      \* pingTest's startTime
  updateInterval, \* the targets whose progress interval is still set
  clock,          \* performance.now(), in ms
  ticks,          \* how many times the clock has advanced
  observed        \* history: per target, how the promises of the probe and of
                  \* the transfer settled (read by the properties only)

vars == << options, pc, tests, idx, testResult, results, statistics, calls,
           awaiting, pingStart, updateInterval, clock, ticks, observed >>

\* ------------------------------------------------------- target selection
\* The inner loop over TEST_SERVERS[serverKey]: the targets that pass the
\* size filter, in the order of the provider's list.
\* Variant: the size list is not consulted.
SizeMatches_AnySize(opts, server) == TRUE

SizeMatches(opts, server) ==
  ~opts.hasSizes \/ \E i \in 1..Len(opts.sizes) : opts.sizes[i] = server.size

RECURSIVE BuildTests(_, _)
BuildTests(opts, servers) ==
  IF servers = << >> THEN << >>
  ELSE LET serverKey == Head(servers)
           picked == IF HasServers(serverKey)
                     THEN SelectSeq(TEST_SERVERS(serverKey),
                                    LAMBDA server : SizeMatches(opts, server))
                     ELSE << >>
       IN  picked \o BuildTests(opts, Tail(servers))

\* testServer(test, agent, showProgress): false from SpeedTest.run,
\* !options.json && options.ping from main.
ShowProgress(opts) == opts.entry = "main" /\ ~opts.json /\ opts.ping

\* --------------------------------------------------------- inputs of a run
ProviderChoices == {"cachefly", "scaleway", "leaseweb"}
SizeChoices == { << >>, << 10 >>, << 100 >> }

ServerLists == UNION { [1..n -> ProviderChoices] : n \in 1..MaxServers }

OptionChoices ==
  { o \in [entry : {"run", "main"}, servers : ServerLists, sizes : SizeChoices,
           hasSizes : BOOLEAN, json : BOOLEAN, ping : BOOLEAN] :
      /\ (o.hasSizes <=> o.sizes # << >>)
      /\ (o.entry = "run" => ~o.json /\ ~o.ping)
      /\ (o.entry = "main" => (o.json <=> ~o.ping))
      /\ Len(BuildTests(o, o.servers)) <= MaxTests }

\* testServer's initial testResult.
NewTestResult(server) ==
  [name |-> server.name, url |-> server.url, size |-> server.size,
   ping |-> None, speedMbps |-> Zero, speedMBps |-> Zero, duration |-> Zero,
   error |-> None]

NoResult == NewTestResult([name |-> "", url |-> "", size |-> 0])


\* --------------------------------------------------------------- makeRequest
\* What the network may answer.  A Location is absolute or relative; new URL()
\* throws "Invalid URL" on a relative one.
StatusCodes == {200, 204, 301, 302, 307, 308, 404}
RedirectCodes == {301, 302, 307, 308}
AbsoluteLocation == "http://mirror.example/file"
RelativeLocation == "/file"
Locations == {AbsoluteLocation, RelativeLocation}
\* err.message of a transport error; Node's AggregateError, raised when every
\* address of a host refuses the connection, has the empty message.
TransportErrors == {"socket hang up", ""}

UrlParses(url) == url # RelativeLocation

HttpError(statusCode) == "HTTP " \o ToString(statusCode)

NoOutcome == [bytes |-> 0, duration |-> Zero, speedMbps |-> Zero, speedMBps |-> Zero]

\* The value the 'end' handler resolves with.
Outcome(totalBytes, startTime, endTime) ==
  [bytes |-> totalBytes,
   duration |-> Rat(endTime - startTime, 1000),
   speedMbps |-> SpeedMbps(totalBytes, endTime - startTime),
   speedMBps |-> SpeedMBps(totalBytes, endTime - startTime)]

\* A request is live while its socket is held: sent (no response yet),
\* receiving (handleResponse attached the data and end listeners) or unread
\* (handleResponse returned without consuming the response).
Live(c) == c.st \in {"sent", "receiving", "unread"}

\* resolve / reject of call id's promise.  A settled promise ignores it; the
\* parent of a redirect's nested call is settled by .then(resolve).catch(reject).
RECURSIVE Settle(_, _, _, _, _)
Settle(cs, id, how, outcome, error) ==
  IF id = 0 \/ cs[id].settled # "pending" THEN cs
  ELSE Settle([cs EXCEPT ![id].settled = how, ![id].outcome = outcome,
                         ![id].error = error],
              cs[id].parent, how, outcome, error)

Resolve(cs, id, outcome) == Settle(cs, id, "resolved", outcome, "")
Reject(cs, id, message) == Settle(cs, id, "rejected", NoOutcome, message)

\* The call at the root of the redirect chain that call id belongs to.
RECURSIVE RootOf(_, _)
RootOf(cs, id) == IF cs[id].parent = 0 THEN id ELSE RootOf(cs, cs[id].parent)

RECURSIVE Depth(_, _)
Depth(cs, id) == IF cs[id].parent = 0 THEN 0 ELSE 1 + Depth(cs, cs[id].parent)

\* Nothing reads the promise of a call whose chain the runner no longer
\* awaits: of such a call only the socket matters (whether it is still open,
\* for which target, and its idle timer), and a closed one is garbage.  The
\* table of calls is kept in a normal form: the awaited chain first, from its
\* root (call 1) to the latest redirect, then the other open sockets, sorted.
Forget(c) ==
  [c EXCEPT !.kind = "", !.parent = 0, !.url = "", !.startTime = 0, !.bytes = 0,
            !.settled = "consumed", !.outcome = NoOutcome, !.error = ""]

StRank(st) == IF st = "sent" THEN 1 ELSE IF st = "receiving" THEN 2 ELSE 3

SortKey(c) == << c.test, c.timeout, c.idle, c.hops, StRank(c.st) >>

RECURSIVE LexLess(_, _)
LexLess(x, y) ==
  /\ x # << >>
  /\ \/ Head(x) < Head(y)
     \/ Head(x) = Head(y) /\ LexLess(Tail(x), Tail(y))

RECURSIVE Insert(_, _)
Insert(c, sorted) ==
  IF sorted = << >> \/ ~LexLess(SortKey(Head(sorted)), SortKey(c))
  THEN << c >> \o sorted
  ELSE << Head(sorted) >> \o Insert(c, Tail(sorted))

RECURSIVE SortCalls(_)
SortCalls(cs) == IF cs = << >> THEN << >> ELSE Insert(Head(cs), SortCalls(Tail(cs)))

Tidy(cs, awaited) ==
  LET chainIds == { id \in 1..Len(cs) : RootOf(cs, id) = awaited }
      chain == [d \in 1..Cardinality(chainIds) |->
                  LET id == CHOOSE k \in chainIds : Depth(cs, k) = d - 1
                  IN  [cs[id] EXCEPT !.parent = d - 1]]
      others == [id \in 1..Len(cs) |->
                   IF id \in chainIds THEN cs[id] ELSE Forget(cs[id])]
      open == SelectSeq(others, LAMBDA c : c.settled = "consumed" /\ Live(c))
  IN  chain \o SortCalls(open)

Settled(id) == calls[id].settled # "pending"

\* The runner is suspended in an await whose promise is still pending: only
\* then does the event loop run an I/O or timer callback.  (What the sockets
\* still open do after the run has returned is not modelled.)
RunnerIdle == pc \in {"ping", "transfer"} /\ ~Settled(awaiting)

\* startTime of a call: performance.now() at the top of makeRequest.
StartTimeOf(now) == now

\* makeRequest(url, agent, timeout) called for target test: a new call, whose
\* promise rejects at once when new URL(url) throws, and whose request is
\* sent otherwise.
MakeRequest(cs, test, kind, parent, hops, url, timeout, now) ==
  LET id == Len(cs) + 1
      call == [test |-> test, kind |-> kind, parent |-> parent, hops |-> hops,
               url |-> url, startTime |-> StartTimeOf(now), timeout |-> timeout,
               st |-> "sent", idle |-> 0, bytes |-> 0,
               settled |-> "pending", outcome |-> NoOutcome, error |-> ""]
  IN  IF UrlParses(url)
      THEN Append(cs, call)
      ELSE Reject(Append(cs, [call EXCEPT !.st = "none"]), id, "Invalid URL")


\* Variant: the body of a redirect response without Location is read like that
\* of a 200.
HandleResponse_RedirectBodyRead(cs, id, statusCode, location, now) ==
  LET c == cs[id]
  IN  IF statusCode \in RedirectCodes /\ location # None
      THEN MakeRequest([cs EXCEPT ![id].st = "unread", ![id].idle = 0],
                       c.test, c.kind, id, c.hops + 1, location[1], c.timeout, now)
      ELSE IF statusCode \notin RedirectCodes /\ statusCode # 200 /\ statusCode # 204
      THEN Reject([cs EXCEPT ![id].st = "unread", ![id].idle = 0],
                  id, HttpError(statusCode))
      ELSE [cs EXCEPT ![id].st = "receiving", ![id].idle = 0]

\* handleResponse(res): a redirect with a Location starts the nested call and
\* returns; another status than 200 and 204 rejects and returns; otherwise
\* the data and end listeners are attached.
HandleResponse(cs, id, statusCode, location, now) ==
  LET c == cs[id]
  IN  IF statusCode \in RedirectCodes /\ location # None
      THEN MakeRequest([cs EXCEPT ![id].st = "unread", ![id].idle = 0],
                       c.test, c.kind, id, c.hops + 1, location[1], c.timeout, now)
      ELSE IF statusCode # 200 /\ statusCode # 204
      THEN Reject([cs EXCEPT ![id].st = "unread", ![id].idle = 0],
                  id, HttpError(statusCode))
      ELSE [cs EXCEPT ![id].st = "receiving", ![id].idle = 0]

\* res.on('data'): totalBytes += chunk.length.
OnData(cs, id) ==
  [cs EXCEPT ![id].bytes = @ + ChunkBytes, ![id].idle = 0]

\* res.on('end'): resolve with the measurement.
OnEnd(cs, id, now) ==
  Resolve([cs EXCEPT ![id].st = "ended", ![id].idle = 0], id,
          Outcome(cs[id].bytes, cs[id].startTime, now))

\* req.on('error', reject) and res.on('error', reject).
OnError(cs, id, message) ==
  Reject([cs EXCEPT ![id].st = "errored", ![id].idle = 0], id, message)

\* req.on('timeout'): req.destroy(); reject(new Error('Timeout')).
OnTimeout(cs, id) ==
  Reject([cs EXCEPT ![id].st = "destroyed", ![id].idle = 0], id, "Timeout")

\* The socket timeout set by options.timeout is an idle timeout: Node emits
\* 'timeout' once the socket has seen no activity for timeout ms.
TimeoutDue(c) == Live(c) /\ c.idle >= c.timeout

\* ----------------------------------------------------------------- pingTest
\* pingTest's result: endTime - startTime, or null from the catch.
\* Variant: a time is recorded whether or not the probe's fetch succeeded.
PingTime_Always(call, startTime, now) == Some(now - startTime)

PingTime(call, startTime, now) ==
  IF call.settled = "resolved" THEN Some(now - startTime) ELSE None

\* ---------------------------------------------------------------- testServer
\* Variant: speedMBps is not copied.
OnTransferSuccess_NoMBps(tr, result) ==
  [tr EXCEPT !.speedMbps = result.speedMbps, !.duration = result.duration]

\* After the await: the three fields are copied from the result.
OnTransferSuccess(tr, result) ==
  [tr EXCEPT !.speedMbps = result.speedMbps, !.speedMBps = result.speedMBps,
             !.duration = result.duration]

\* Variant: the failure is swallowed.
OnTransferFailure_Swallowed(tr, message) == tr

\* catch (err): testResult.error = err.message.
OnTransferFailure(tr, message) == [tr EXCEPT !.error = Some(message)]

\* ---------------------------------------------------------------- statistics
\* !r.error: null and the empty string are falsy.
Falsy(error) == error = None \/ error[1] = ""

ValidResults(rs) == SelectSeq(rs, LAMBDA r : Falsy(r.error))

RECURSIVE SumSpeeds(_)
SumSpeeds(rs) ==
  IF rs = << >> THEN Zero
  ELSE RatAdd(SumSpeeds(SubSeq(rs, 1, Len(rs) - 1)), rs[Len(rs)].speedMbps)

RECURSIVE MaxSpeed(_)
MaxSpeed(rs) ==
  IF Len(rs) = 1 THEN rs[1].speedMbps
  ELSE LET m == MaxSpeed(Tail(rs))
       IN  IF RatLess(rs[1].speedMbps, m) THEN m ELSE rs[1].speedMbps

RECURSIVE MinSpeed(_)
MinSpeed(rs) ==
  IF Len(rs) = 1 THEN rs[1].speedMbps
  ELSE LET m == MinSpeed(Tail(rs))
       IN  IF RatLess(m, rs[1].speedMbps) THEN m ELSE rs[1].speedMbps

\* validResults.find(r => r.speedMbps === speed)?.name
\* Variant: the last result with the speed, not the first.
FindName_Last(rs, speed) ==
  IF \A i \in 1..Len(rs) : rs[i].speedMbps # speed THEN None
  ELSE Some(rs[CHOOSE i \in 1..Len(rs) :
                 /\ rs[i].speedMbps = speed
                 /\ \A k \in (i + 1)..Len(rs) : rs[k].speedMbps # speed].name)

RECURSIVE FindName(_, _)
FindName(rs, speed) ==
  IF rs = << >> THEN None
  ELSE IF rs[1].speedMbps = speed THEN Some(rs[1].name)
  ELSE FindName(Tail(rs), speed)

EmptyStats == [averageSpeed |-> None, maxSpeed |-> None, minSpeed |-> None,
               bestServer |-> None, worstServer |-> None]

\* "Calculate statistics" of SpeedTest.run and of main's JSON branch; the
\* overall statistics of displayStatistics are the same computation.
StatsOf(validResults) ==
  IF Len(validResults) > 0
  THEN [averageSpeed |-> Some(RatDivInt(SumSpeeds(validResults), Len(validResults))),
        maxSpeed |-> Some(MaxSpeed(validResults)),
        minSpeed |-> Some(MinSpeed(validResults)),
        bestServer |-> FindName(validResults, MaxSpeed(validResults)),
        worstServer |-> FindName(validResults, MinSpeed(validResults))]
  ELSE EmptyStats

CalcStatistics(rs) == StatsOf(ValidResults(rs))

\* -------------------------------------------------------------------- Init
RunChoices ==
  { [entry |-> "run", servers |-> << "cachefly" >>, sizes |-> << >>,
     hasSizes |-> FALSE, json |-> FALSE, ping |-> FALSE],
    [entry |-> "main", servers |-> << "scaleway", "leaseweb" >>, sizes |-> << 100 >>,
     hasSizes |-> TRUE, json |-> TRUE, ping |-> FALSE],
    [entry |-> "main", servers |-> << "cachefly" >>, sizes |-> << 10 >>,
     hasSizes |-> TRUE, json |-> FALSE, ping |-> TRUE],
    [entry |-> "main", servers |-> << "leaseweb" >>, sizes |-> << >>,
     hasSizes |-> FALSE, json |-> FALSE, ping |-> TRUE] }

InitWith(choices) ==
  /\ options \in choices
  /\ pc = "start"
  /\ tests = << >>
  /\ idx = 1
  /\ testResult = NoResult
  /\ results = << >>
  /\ statistics = EmptyStats
  /\ calls = << >>
  /\ awaiting = 0
  /\ pingStart = 0
  /\ updateInterval = {}
  /\ clock = 0
  /\ ticks = 0
  /\ observed = << >>

Init == InitWith(RunChoices)

\* ----------------------------------------------------------- runner actions
\* "Build test list"; main exits with status 1 when the list is empty.
Start ==
  /\ pc = "start"
  /\ tests' = BuildTests(options, options.servers)
  /\ pc' = IF options.entry = "main" /\ Len(tests') = 0 THEN "exit" ELSE "loop"
  /\ UNCHANGED << options, idx, testResult, results, statistics, calls,
                  awaiting, pingStart, updateInterval, clock, ticks, observed >>

\* The loop calls testServer for the next target, which calls pingTest, which
\* calls makeRequest with the probe's timeout.
TestServerStart ==
  /\ pc = "loop"
  /\ idx <= Len(tests)
  /\ testResult' = NewTestResult(tests[idx])
  /\ pingStart' = clock
  /\ calls' = Tidy(MakeRequest(calls, idx, "ping", 0, 0, tests[idx].url,
                               PingTimeoutMs, clock), Len(calls) + 1)
  /\ awaiting' = 1
  /\ pc' = "ping"
  /\ UNCHANGED << options, tests, idx, results, statistics, updateInterval, clock,
                  ticks, observed >>

\* pingTest returns; testServer records the ping, sets the progress interval
\* when showProgress, and calls makeRequest for the transfer.
PingReturn ==
  /\ pc = "ping"
  /\ Settled(awaiting)
  /\ testResult' = [testResult EXCEPT !.ping = PingTime(calls[awaiting], pingStart, clock)]
  /\ updateInterval' = IF ShowProgress(options) THEN updateInterval \cup {idx}
                       ELSE updateInterval
  /\ calls' = Tidy(MakeRequest(calls, idx, "transfer", 0, 0, tests[idx].url,
                               TransferTimeoutMs, clock), Len(calls) + 1)
  /\ observed' = Append(observed, [ping |-> calls[awaiting].settled,
                                    transfer |-> "pending", message |-> "",
                                    outcome |-> NoOutcome])
  /\ awaiting' = 1
  /\ pc' = "transfer"
  /\ UNCHANGED << options, tests, idx, results, statistics, pingStart, clock, ticks >>

\* The transfer's promise settles: testServer fills the result (clearing the
\* interval) or the error, returns, and the loop pushes the result.
TransferReturn ==
  /\ pc = "transfer"
  /\ Settled(awaiting)
  /\ LET call == calls[awaiting]
     IN  IF call.settled = "resolved"
         THEN /\ updateInterval' = updateInterval \ {idx}
              /\ results' = Append(results, OnTransferSuccess(testResult, call.outcome))
         ELSE /\ updateInterval' = updateInterval
              /\ results' = Append(results, OnTransferFailure(testResult, call.error))
  /\ testResult' = NoResult
  /\ idx' = idx + 1
  /\ awaiting' = 0
  /\ pc' = "loop"
  /\ calls' = Tidy(calls, 0)
  /\ observed' = [observed EXCEPT ![idx].transfer = calls[awaiting].settled,
                                  ![idx].message = calls[awaiting].error,
                                  ![idx].outcome = calls[awaiting].outcome]
  /\ UNCHANGED << options, tests, statistics, pingStart, clock, ticks >>

\* After the last target: the statistics are computed and the run returns.
Finish ==
  /\ pc = "loop"
  /\ idx > Len(tests)
  /\ statistics' = CalcStatistics(results)
  /\ pc' = "done"
  /\ UNCHANGED << options, tests, idx, testResult, results, calls, awaiting,
                  pingStart, updateInterval, clock, ticks, observed >>

\* ---------------------------------------------------------- network actions
\* The response to request id arrives: handleResponse runs.
Respond(id, statusCode, location) ==
  /\ RunnerIdle
  /\ calls[id].st = "sent"
  /\ clock > calls[id].startTime
  /\ location # None => statusCode \in RedirectCodes /\ calls[id].hops < MaxRedirects
  /\ calls' = Tidy(HandleResponse(calls, id, statusCode, location, clock), awaiting)
  /\ UNCHANGED << options, pc, tests, idx, testResult, results, statistics,
                  awaiting, pingStart, updateInterval, clock, ticks, observed >>

Data(id) ==
  /\ RunnerIdle
  /\ calls[id].st = "receiving"
  /\ calls[id].bytes < MaxChunks * ChunkBytes
  /\ calls' = Tidy(OnData(calls, id), awaiting)
  /\ UNCHANGED << options, pc, tests, idx, testResult, results, statistics,
                  awaiting, pingStart, updateInterval, clock, ticks, observed >>

End(id) ==
  /\ RunnerIdle
  /\ calls[id].st = "receiving"
  /\ calls' = Tidy(OnEnd(calls, id, clock), awaiting)
  /\ UNCHANGED << options, pc, tests, idx, testResult, results, statistics,
                  awaiting, pingStart, updateInterval, clock, ticks, observed >>

\* The socket of a live request fails: 'error' is emitted.
RequestError(id, message) ==
  /\ RunnerIdle
  /\ Live(calls[id])
  /\ calls' = Tidy(OnError(calls, id, message), awaiting)
  /\ UNCHANGED << options, pc, tests, idx, testResult, results, statistics,
                  awaiting, pingStart, updateInterval, clock, ticks, observed >>

\* The socket of a live request has been idle for its timeout: 'timeout'.
Timeout(id) ==
  /\ RunnerIdle
  /\ TimeoutDue(calls[id])
  /\ calls' = Tidy(OnTimeout(calls, id), awaiting)
  /\ UNCHANGED << options, pc, tests, idx, testResult, results, statistics,
                  awaiting, pingStart, updateInterval, clock, ticks, observed >>

\* Time passes, by ms, while some socket is open: no socket stays idle for
\* longer than its timeout without 'timeout' being emitted.
Tick(ms) ==
  /\ RunnerIdle
  /\ ticks < MaxTicks
  /\ \E id \in 1..Len(calls) : Live(calls[id])
  /\ \A id \in 1..Len(calls) :
       Live(calls[id]) => calls[id].idle + ms <= calls[id].timeout
  /\ clock' = clock + ms
  /\ ticks' = ticks + 1
  /\ calls' = [id \in 1..Len(calls) |->
                 IF Live(calls[id]) THEN [calls[id] EXCEPT !.idle = @ + ms]
                 ELSE calls[id]]
  /\ UNCHANGED << options, pc, tests, idx, testResult, results, statistics,
                  awaiting, pingStart, updateInterval, observed >>

LocationHeaders == {None} \cup {Some(l) : l \in Locations}

Next ==
  \/ Start
  \/ TestServerStart
  \/ PingReturn
  \/ TransferReturn
  \/ Finish
  \/ \E id \in 1..Len(calls), statusCode \in StatusCodes, location \in LocationHeaders :
       Respond(id, statusCode, location)
  \/ \E id \in 1..Len(calls) : Data(id)
  \/ \E id \in 1..Len(calls) : End(id)
  \/ \E id \in 1..Len(calls), message \in TransportErrors : RequestError(id, message)
  \/ \E id \in 1..Len(calls) : Timeout(id)
  \/ \E ms \in Steps : Tick(ms)

Spec == Init /\ [][Next]_vars

\* ------------------------------------------- selection, on a failing network
\* Every requested list and size filter within the bounds, on a network where
\* every request fails at once: the runs differ only in what they select.
InitSelect == InitWith(OptionChoices)

NextSelect ==
  \/ Start
  \/ TestServerStart
  \/ PingReturn
  \/ TransferReturn
  \/ Finish
  \/ \E id \in 1..Len(calls), message \in TransportErrors : RequestError(id, message)

SpecSelect == InitSelect /\ [][NextSelect]_vars

\* --------------------------------------------- statistics, as a pure function
\* The runner just before "Calculate statistics", with every sequence of up
\* to MaxResults results: successes of four measurements (50, 200, 0 and again
\* 50 Mbps) and failures.
MaxResults == 3

StatsTargets == TEST_SERVERS("linode")

Measurements ==
  { << 0, 5000 >>, << 31250000, 5000 >>, << 125000000, 5000 >>, << 62500000, 10000 >> }

\* How a transfer ended: with a measurement, or with an error message.
Attempts ==
  { [ok |-> TRUE, bytes |-> m[1], ms |-> m[2], message |-> ""] : m \in Measurements }
    \cup { [ok |-> FALSE, bytes |-> 0, ms |-> 0, message |-> e] : e \in {"Timeout", ""} }

ResultOf(server, a) ==
  IF a.ok THEN OnTransferSuccess(NewTestResult(server), Outcome(a.bytes, 0, a.ms))
  ELSE OnTransferFailure(NewTestResult(server), a.message)

InitStats ==
  /\ options = [entry |-> "run", servers |-> << "linode" >>, sizes |-> << >>,
                hasSizes |-> FALSE, json |-> FALSE, ping |-> FALSE]
  /\ pc = "loop"
  /\ \E n \in 1..MaxResults : \E as \in [1..n -> Attempts] :
       /\ tests = SubSeq(StatsTargets, 1, n)
       /\ idx = n + 1
       /\ results = [i \in 1..n |-> ResultOf(StatsTargets[i], as[i])]
       /\ observed = [i \in 1..n |->
                        [ping |-> "rejected",
                         transfer |-> IF as[i].ok THEN "resolved" ELSE "rejected",
                         message |-> as[i].message,
                         outcome |-> IF as[i].ok THEN Outcome(as[i].bytes, 0, as[i].ms)
                                     ELSE NoOutcome]]
  /\ testResult = NoResult
  /\ statistics = EmptyStats
  /\ calls = << >>
  /\ awaiting = 0
  /\ pingStart = 0
  /\ updateInterval = {}
  /\ clock = 0
  /\ ticks = 0

SpecStats == InitStats /\ [][Finish]_vars

\* ================================================================== claims
Chain == { id \in 1..Len(calls) : calls[id].settled # "consumed" }

\* C1: no two transfers are in flight at once: every request that is still
\* open (neither completed nor destroyed) belongs to one and the same target,
\* so no request of a target survives into the next target's requests.
C1_OneTargetInFlight ==
  \A i, j \in 1..Len(calls) :
    Live(calls[i]) /\ Live(calls[j]) => calls[i].test = calls[j].test

\* C2: a call whose full response has not completed within timeoutMs of the
\* call is aborted and fails with Timeout, even while data is arriving: no
\* call is still pending later than timeoutMs after it was made.
C2_AbortedAtDeadline ==
  \A id \in Chain :
    calls[id].settled = "pending" => clock - calls[id].startTime <= calls[id].timeout

\* C3: the call for a redirecting URL A settles with exactly the outcome of
\* the nested call for the Location B: once A's promise is settled, B's is
\* settled the same way, with the same values or the same error.
C3_RedirectOutcome ==
  \A id \in Chain :
    LET parent == calls[id].parent
    IN  parent # 0 /\ calls[parent].settled # "pending" =>
          /\ calls[id].settled = calls[parent].settled
          /\ calls[id].outcome = calls[parent].outcome
          /\ calls[id].error = calls[parent].error

\* ---- C4
Names(rs) == [i \in 1..Len(rs) |-> rs[i].name]

Requested(o, key) == \E i \in 1..Len(o.servers) : o.servers[i] = key

PassesSizes(o, server) ==
  ~o.hasSizes \/ server.size \in { o.sizes[i] : i \in 1..Len(o.sizes) }

\* The catalog filtered by the request: every provider of the catalog, in the
\* catalog's order, that is requested, with its targets that pass the sizes.
RECURSIVE CatalogFilter(_, _)
CatalogFilter(o, k) ==
  IF k > Len(TEST_SERVERS_KEYS) THEN << >>
  ELSE (IF Requested(o, TEST_SERVERS_KEYS[k])
        THEN SelectSeq(TEST_SERVERS(TEST_SERVERS_KEYS[k]),
                       LAMBDA server : PassesSizes(o, server))
        ELSE << >>) \o CatalogFilter(o, k + 1)

Block(o, i) ==
  SelectSeq(TEST_SERVERS(o.servers[i]), LAMBDA server : PassesSizes(o, server))

RECURSIVE Offset(_, _)
Offset(o, i) == IF i = 1 THEN 0 ELSE Offset(o, i - 1) + Len(Block(o, i - 1))

DurationMs(duration) == (duration.n * 1000) \div duration.d

\* C5: a result whose error is set has speedMbps, speedMBps and duration 0;
\* the three fields stay 0 until the transfer has succeeded, and are then the
\* duration and the two speeds of one and the same (bytes, duration).
C5_ErrorMeansNoSpeed ==
  /\ \A i \in 1..Len(results) :
       LET r == results[i]
           o == observed[i].outcome
       IN  /\ r.error # None =>
                r.speedMbps = Zero /\ r.speedMBps = Zero /\ r.duration = Zero
           /\ r.error = None =>
                /\ observed[i].transfer = "resolved"
                /\ r.duration = o.duration
                /\ r.speedMbps = SpeedMbps(o.bytes, DurationMs(o.duration))
                /\ r.speedMBps = SpeedMBps(o.bytes, DurationMs(o.duration))
  /\ pc \in {"ping", "transfer"} =>
       /\ testResult.error = None
       /\ testResult.speedMbps = Zero
       /\ testResult.speedMBps = Zero
       /\ testResult.duration = Zero

\* One target failed and another delivered bytes.
C5_Witness ==
  \E i, j \in 1..Len(results) :
    /\ results[i].error # None
    /\ results[j].error = None
    /\ results[j].speedMBps # Zero

\* ---- C6
\* C6: a failing target never aborts the run: the results are those of the
\* targets processed so far, in order, a failed one carrying the message of
\* its failure; the run ends with one result per selected target, and only
\* main's empty selection exits.
C6_EveryTargetReported ==
  /\ Len(results) = idx - 1
  /\ \A i \in 1..Len(results) :
       /\ results[i].name = tests[i].name
       /\ observed[i].transfer = "rejected" =>
            results[i].error = Some(observed[i].message)
       /\ observed[i].transfer = "resolved" => results[i].error = None
  /\ pc = "done" => Len(results) = Len(tests)
  /\ pc = "exit" => Len(tests) = 0

\* The first of two targets failed and the second was still measured.
C6_Witness ==
  /\ pc = "done"
  /\ Len(results) = 2
  /\ results[1].error # None
  /\ results[2].error = None
  /\ results[2].speedMbps # Zero

\* ---- C7
PingOf(i) == IF i <= Len(results) THEN results[i].ping ELSE testResult.ping

\* C7: a failed probe is recorded as an absent ping, never as an error: the
\* ping field is set when the transfer starts, it is null exactly when the
\* probe's fetch failed, the transfer is started whatever the probe did, and
\* a result's error is the transfer's.
C7_ProbeNeverRaises ==
  /\ \A i \in 1..Len(observed) :
       /\ observed[i].ping \in {"resolved", "rejected"}
       /\ observed[i].ping = "rejected" <=> PingOf(i) = None
  /\ pc = "transfer" =>
       /\ Len(observed) = idx
       /\ calls[1].kind = "transfer"
       /\ calls[1].test = idx
  /\ \A i \in 1..Len(results) :
       results[i].error # None => observed[i].transfer = "rejected"

\* A probe failed and the transfer of the same target succeeded.
C7_Witness ==
  \E i \in 1..Len(results) :
    /\ observed[i].ping = "rejected"
    /\ results[i].ping = None
    /\ observed[i].transfer = "resolved"
    /\ results[i].error = None

\* ---- C8
RECURSIVE SucceededUpTo(_)
SucceededUpTo(k) ==
  IF k = 0 THEN << >>
  ELSE IF observed[k].transfer = "resolved"
  THEN Append(SucceededUpTo(k - 1), results[k])
  ELSE SucceededUpTo(k - 1)

\* C8: the statistics are computed from exactly the results whose transfer
\* succeeded, and are the empty statistics when none did.
C8_OnlySucceededCounted ==
  pc = "done" => statistics = StatsOf(SucceededUpTo(Len(results)))

\* ---- C9
RECURSIVE Total(_)
Total(rs) == IF rs = << >> THEN Zero ELSE RatAdd(Head(rs).speedMbps, Total(Tail(rs)))

FirstWith(rs, speed) ==
  CHOOSE i \in 1..Len(rs) :
    rs[i].speedMbps = speed /\ \A k \in 1..(i - 1) : rs[k].speedMbps # speed

\* C9: over a non-empty sequence of successful results, averageSpeed is the
\* arithmetic mean of the speeds, maxSpeed and minSpeed their maximum and
\* minimum, bestServer the name of the first result with the maximum and
\* worstServer the name of the first result with the minimum.
C9_OverallStatistics ==
  pc = "done" /\ ValidResults(results) # << >> =>
    LET v == ValidResults(results)
        avg == statistics.averageSpeed[1]
        max == statistics.maxSpeed[1]
        min == statistics.minSpeed[1]
    IN  /\ avg.n * Total(v).d * Len(v) = Total(v).n * avg.d
        /\ \E i \in 1..Len(v) : v[i].speedMbps = max
        /\ \A i \in 1..Len(v) : ~RatLess(max, v[i].speedMbps)
        /\ \E i \in 1..Len(v) : v[i].speedMbps = min
        /\ \A i \in 1..Len(v) : ~RatLess(v[i].speedMbps, min)
        /\ statistics.bestServer = Some(v[FirstWith(v, max)].name)
        /\ statistics.worstServer = Some(v[FirstWith(v, min)].name)

\* Speeds 50, 200, 200: the mean is 150, the best is the first of the two
\* results at 200 and the worst the result at 50.
C9_Witness ==
  /\ pc = "done"
  /\ [i \in 1..Len(results) |-> results[i].speedMbps]
       = << Rat(50, 1), Rat(200, 1), Rat(200, 1) >>
  /\ \A i \in 1..Len(results) : results[i].error = None
  /\ statistics.averageSpeed = Some(Rat(150, 1))
  /\ statistics.bestServer = Some(results[2].name)
  /\ statistics.worstServer = Some(results[1].name)

\* ---- C10
\* C10: the duration a successful fetch reports runs from the moment its
\* caller invoked makeRequest to the end of the response, redirects included.
\* (Checked when the awaited promise has just resolved: the clock still
\* shows the time of completion.)
C10_ElapsedSinceInvocation ==
  pc \in {"ping", "transfer"} /\ calls[awaiting].settled = "resolved" =>
    calls[awaiting].outcome.duration = Rat(clock - calls[awaiting].startTime, 1000)

\* ---- C11
Followed(statusCode, location) ==
  statusCode \in {301, 302, 307, 308} /\ location # None

StatusFailure(id, statusCode) ==
  /\ calls'[id].settled = "rejected"
  /\ calls'[id].error = "HTTP " \o ToString(statusCode)
  /\ calls'[id].outcome = NoOutcome
  /\ calls'[id].bytes = 0
  /\ ~Live(calls'[id]) \/ calls'[id].st = "unread"

\* C11: when the response to a pending fetch has a status other than 200 and
\* 204 and is not a redirect that is followed (a 301/302/307/308 without a
\* Location header is not followed), the fetch fails at once with the error
\* "HTTP <status>", it has counted no byte and has no success outcome, its
\* body is not read, and the fetch the caller awaits fails with the same error.
C11_StatusFailure ==
  [][ \A id \in Chain : \A statusCode \in StatusCodes : \A location \in LocationHeaders :
        /\ statusCode \notin {200, 204}
        /\ ~Followed(statusCode, location)
        /\ Respond(id, statusCode, location)
        => /\ StatusFailure(id, statusCode)
           /\ StatusFailure(awaiting, statusCode) ]_vars

\* A transfer was answered 302 without a Location header and failed as
\* "HTTP 302"; the result of its target carries that error.
C11_Witness ==
  \E i \in 1..Len(results) :
    /\ observed[i].transfer = "rejected"
    /\ observed[i].message = "HTTP 302"
    /\ results[i].error = Some("HTTP 302")
    /\ results[i].speedMbps = Zero

\* ---- C12
\* C12: every progress timer testServer starts is stopped by the time
\* testServer returns, whether the transfer succeeded or failed: a timer is
\* active only for the target whose transfer is being awaited, and none is
\* active between targets or after the run.
C12_TimerStopped ==
  /\ updateInterval \subseteq (IF pc = "transfer" THEN {idx} ELSE {})
  /\ pc = "done" => updateInterval = {}
====
